---------------------------- MODULE Spec2Model ----------------------------
(***************************************************************************)
(* Model of the invocation-and-interrupt core of gh-agent-aci:             *)
(*   src/my_agent.py  the agent: authorization channel (_captured_urls),   *)
(*                    bounded token acquirer (_call_github_with_timeout),  *)
(*                    tool wrapper (fetch_github_profile), orchestrator    *)
(*                    (invoke);                                            *)
(*   src/app.py       the client: parse_agent_response, render_response.   *)
(*                                                                         *)
(* Texts.  A Python string is modelled as a sequence of "runs": maximal    *)
(* pieces of text that contain no whitespace around a URL.  A run is a     *)
(* record [pre, url, post]: the characters before the first "https://" of  *)
(* the run (a sequence of string pieces), the URL itself (a string, "" if  *)
(* the run holds none) and the non-blank characters that follow the URL    *)
(* without a separating blank (a sequence of one-character pieces such as  *)
(* ")" or "'").  Runs are separated by whitespace.  The emoji of the       *)
(* source's literals are written LOCK and WARN.                            *)
(***************************************************************************)
EXTENDS Integers, Sequences, FiniteSets, TLC

\* ------------------------------------------------------------------ texts

\* A run of ordinary text that holds no URL.
W(s) == [pre |-> <<s>>, url |-> "", post |-> <<>>]

\* A run that is exactly one URL.
U(u) == [pre |-> <<>>, url |-> u, post |-> <<>>]

\* Python's None for a URL (falsy, as in "if url:").
None == [pre |-> <<>>, url |-> "", post |-> <<>>]

\* URLs the identity provider can surface.  The first begins with
\* "https://bedrock-agentcore"; the second holds "oauth" and "authorize" but is
\* no AgentCore URL; the third is a URL that matches neither pattern.
AC_URL == "https://bedrock-agentcore.us-east-1.amazonaws.com/identities/oauth2/authorize?request_uri=r1"
OA_URL == "https://github.com/login/oauth/authorize?client_id=c1"
API_URL == "https://api.github.com/user"

StartsWithAgentCore(u) == u \in {AC_URL}
HasAuthorizeOrOauth(u) == u \in {AC_URL, OA_URL}

\* The characters the class [^\s'"] rejects, among the pieces a run's post holds.
IsQuote(c) == c \in {"'", "\""}

\* The longest prefix of post without a quote: where [^\s'"]+ stops.
RECURSIVE UntilQuote(_)
UntilQuote(post) ==
    IF post = <<>> \/ IsQuote(Head(post)) THEN <<>>
    ELSE <<Head(post)>> \o UntilQuote(Tail(post))

\* group(1) of a match that starts at the URL of run r.
MatchAt(r) == [pre |-> <<>>, url |-> r.url, post |-> UntilQuote(r.post)]

\* The runs of the text whose URL an AgentCore / authorize-or-oauth search hits.
AgentCoreRuns(text) == {k \in 1..Len(text) : StartsWithAgentCore(text[k].url)}
OauthRuns(text) == {k \in 1..Len(text) : HasAuthorizeOrOauth(text[k].url)}

\* re.search over the text: the leftmost of the runs that match, or 0.
FirstRun(hits) ==
    IF hits = {} THEN 0
    ELSE CHOOSE k \in hits : \A j \in hits : k <= j

\* A variant that knows only the AgentCore pattern (the second search dropped).
_extract_auth_url_AgentCoreOnly(text) ==
    IF text = <<>> THEN None
    ELSE LET a == FirstRun(AgentCoreRuns(text))
         IN  IF a # 0 THEN MatchAt(text[a]) ELSE None

\* _extract_auth_url: None for empty text; else the first AgentCore URL of the
\* text; else the first URL holding "authorize" or "oauth"; else None.
_extract_auth_url(text) ==
    IF text = <<>> THEN None
    ELSE LET a == FirstRun(AgentCoreRuns(text))
             o == FirstRun(OauthRuns(text))
         IN  IF a # 0 THEN MatchAt(text[a])
             ELSE IF o # 0 THEN MatchAt(text[o])
             ELSE None

\* The message of the authorization interrupt (the f-string of lines 198-200,
\* 208-210, 219-221 and 288-290): the URL sits inside a markdown link, directly
\* followed by ")".
AuthRequiredMessage(url) ==
    << W("LOCK **GitHub Authorization Required**"),
       [pre |-> <<"[Click here to authorize GitHub access](">>,
        url |-> url.url, post |-> url.post \o <<")">>],
       W("After authorizing, come back and retry your command.") >>


\* The message of the timeout raise (lines 225-230); captured is the channel as
\* re-read by the f-string's _get_urls() (line 229), printed as a Python list.
\* The stdout/stderr excerpts are not modelled (written EMPTY).
ReprList(captured) ==
    [k \in 1..Len(captured) |->
        [pre |-> <<"'">>, url |-> captured[k].url,
         post |-> captured[k].post \o <<"'">>]]

TimeoutMessage(captured) ==
    << W("WARN **Timed out.** Could not find auth URL in stdout, stderr, or logs."),
       W("stdout: EMPTY stderr: EMPTY"),
       W("captured_urls: [") >> \o ReprList(captured) \o << W("]") >>

\* ------------------------------------------------------------- exceptions

\* An exception: its class and str(e).  AuthRequiredException derives from
\* Exception (line 29); "BaseException" stands for a fault outside Exception
\* (KeyboardInterrupt, SystemExit, asyncio.CancelledError).
Exc(cls, text) == [cls |-> cls, text |-> text]
NoExc == Exc("none", <<>>)
IsException(e) == e.cls \in {"AuthRequiredException", "Exception"}

\* ------------------------------------------------------------ input sets

\* Invocations of invoke (turns); each makes at most one tool call.  Two are
\* enough for a later turn to meet the worker an earlier turn left running and
\* for two sessions to overlap.
Inv == {1, 2}

\* timeout_seconds as passed by fetch_github_profile, and the poll interval.
timeout_seconds == 25
POLL_SECONDS == 2

\* Payloads handed to invoke: a JSON value that is no object, the warmup
\* request (with and without a prompt), a prompt, and an object without prompt.
PROMPT == "fetch my github profile"
Payloads ==
    { [isdict |-> FALSE, type |-> "None", prompt |-> "None"],
      [isdict |-> TRUE, type |-> "warmup", prompt |-> "None"],
      [isdict |-> TRUE, type |-> "warmup", prompt |-> PROMPT],
      [isdict |-> TRUE, type |-> "None", prompt |-> PROMPT],
      [isdict |-> TRUE, type |-> "None", prompt |-> "None"] }
NoPayload == [isdict |-> TRUE, type |-> "None", prompt |-> "unset"]

\* Texts the identity-provider client logs or prints while the worker runs.
LogTexts ==
    { << W("Polling for token") >>,
      << W("Please authorize:"), U(AC_URL) >>,
      << W("Open"), U(OA_URL), W("to continue") >> }

\* str(e) of the exceptions the worker's provider call can raise.
ErrTexts ==
    { << W("GET"), U(API_URL), W("failed: connection reset") >>,
      << W("Authorization required:"), U(OA_URL) >> }

\* The value _get_github_data returns (the profile summary; the textual error
\* of line 110 is a returned value like it).
DataTexts ==
    { << W("**GitHub Profile:** octocat") >> }

\* Final assistant texts of the language model.
AUTH_PREFIX == "__AUTH_REQUIRED__"
LLMTexts ==
    { << W("Hello! How can I help?") >> }

\* ToolNode(tools) is built with the library's default error handling (line
\* 263).  Releases of the library differ in that default: it either turns an
\* Exception raised by a tool into a tool-error message and lets the graph go
\* on (TRUE), or re-raises it (FALSE).
ToolNodeHandlesErrors == {TRUE, FALSE}

\* ---------------------------------------------------------------- decoder
\* src/app.py, parse_agent_response.  A decoded text is a sequence of lexemes:
\* the JSON punctuation, the double quote DQ, blanks, and word pieces.  Bytes
\* are a sequence of byte groups: the ASCII lexemes stand for their own bytes,
\* and the two bytes of the character E_ACUTE are "C3" and "A9".

DQ == "\""
E_ACUTE == "e-acute"

\* The longest number of events of a stream.
MaxEvents == 3

\* bytes.decode("utf-8"): ok is FALSE where Python raises UnicodeDecodeError
\* (a lead byte without its continuation byte, or a stray continuation byte).
RECURSIVE Utf8Decode(_)
Utf8Decode(b) ==
    IF b = <<>> THEN [ok |-> TRUE, text |-> <<>>]
    ELSE IF Head(b) = "C3"
    THEN IF Len(b) >= 2 /\ b[2] = "A9"
         THEN LET r == Utf8Decode(SubSeq(b, 3, Len(b)))
              IN  [ok |-> r.ok, text |-> <<E_ACUTE>> \o r.text]
         ELSE [ok |-> FALSE, text |-> <<>>]
    ELSE IF Head(b) = "A9" THEN [ok |-> FALSE, text |-> <<>>]
    ELSE LET r == Utf8Decode(Tail(b))
         IN  [ok |-> r.ok, text |-> <<Head(b)>> \o r.text]

\* JSON values: t is "str", "num", "lit", "obj" or "arr"; s the content of a
\* string (or the lexeme of a number or literal); items the members of an
\* object (k the key) or the elements of an array (k empty).
Str(text) == [t |-> "str", s |-> text, items |-> <<>>]
NoVal == [t |-> "none", s |-> <<>>, items |-> <<>>]
ParseFail == [ok |-> FALSE, val |-> NoVal, rest |-> <<>>]

RECURSIVE SkipWs(_)
SkipWs(t) == IF t # <<>> /\ Head(t) = " " THEN SkipWs(Tail(t)) ELSE t

\* A string literal at the head of t: DQ, lexemes other than DQ, DQ.
ParseString(t) ==
    IF t = <<>> \/ Head(t) # DQ THEN ParseFail
    ELSE IF \E j \in 2..Len(t) : t[j] = DQ
    THEN LET j == CHOOSE j \in 2..Len(t) :
                    t[j] = DQ /\ \A h \in 2..(j - 1) : t[h] # DQ
         IN  [ok |-> TRUE, val |-> Str(SubSeq(t, 2, j - 1)),
              rest |-> SubSeq(t, j + 1, Len(t))]
    ELSE ParseFail

RECURSIVE ParseValue(_), ParseMembers(_, _), ParseElements(_, _)

\* The members of an object after "{" or ",": key, ":", value, then "," or "}".
ParseMembers(t, acc) ==
    LET k == ParseString(SkipWs(t))
    IN  IF ~k.ok THEN ParseFail
        ELSE LET t1 == SkipWs(k.rest)
             IN  IF t1 = <<>> \/ Head(t1) # ":" THEN ParseFail
                 ELSE LET v == ParseValue(Tail(t1))
                      IN  IF ~v.ok THEN ParseFail
                          ELSE LET t2 == SkipWs(v.rest)
                                   acc2 == Append(acc, [k |-> k.val.s, v |-> v.val])
                               IN  IF t2 = <<>> THEN ParseFail
                                   ELSE IF Head(t2) = ","
                                   THEN ParseMembers(Tail(t2), acc2)
                                   ELSE IF Head(t2) = "}"
                                   THEN [ok |-> TRUE,
                                         val |-> [t |-> "obj", s |-> <<>>,
                                                  items |-> acc2],
                                         rest |-> Tail(t2)]
                                   ELSE ParseFail

\* The elements of an array after "[" or ",": value, then "," or "]".
ParseElements(t, acc) ==
    LET v == ParseValue(t)
    IN  IF ~v.ok THEN ParseFail
        ELSE LET t2 == SkipWs(v.rest)
                 acc2 == Append(acc, [k |-> <<>>, v |-> v.val])
             IN  IF t2 = <<>> THEN ParseFail
                 ELSE IF Head(t2) = "," THEN ParseElements(Tail(t2), acc2)
                 ELSE IF Head(t2) = "]"
                 THEN [ok |-> TRUE,
                       val |-> [t |-> "arr", s |-> <<>>, items |-> acc2],
                       rest |-> Tail(t2)]
                 ELSE ParseFail

ParseValue(t) ==
    LET t0 == SkipWs(t)
    IN  IF t0 = <<>> THEN ParseFail
        ELSE IF Head(t0) = DQ THEN ParseString(t0)
        ELSE IF Head(t0) \in {"1", "42"}
        THEN [ok |-> TRUE, val |-> [t |-> "num", s |-> <<Head(t0)>>, items |-> <<>>],
              rest |-> Tail(t0)]
        ELSE IF Head(t0) \in {"null", "true", "false"}
        THEN [ok |-> TRUE, val |-> [t |-> "lit", s |-> <<Head(t0)>>, items |-> <<>>],
              rest |-> Tail(t0)]
        ELSE IF Head(t0) = "{"
        THEN LET t1 == SkipWs(Tail(t0))
             IN  IF t1 # <<>> /\ Head(t1) = "}"
                 THEN [ok |-> TRUE,
                       val |-> [t |-> "obj", s |-> <<>>, items |-> <<>>],
                       rest |-> Tail(t1)]
                 ELSE ParseMembers(t1, <<>>)
        ELSE IF Head(t0) = "["
        THEN LET t1 == SkipWs(Tail(t0))
             IN  IF t1 # <<>> /\ Head(t1) = "]"
                 THEN [ok |-> TRUE,
                       val |-> [t |-> "arr", s |-> <<>>, items |-> <<>>],
                       rest |-> Tail(t1)]
                 ELSE ParseElements(t1, <<>>)
        ELSE ParseFail

\* json.loads: one value, blanks around it allowed, nothing else after it.
json_loads(text) ==
    LET r == ParseValue(text)
    IN  IF r.ok /\ SkipWs(r.rest) = <<>> THEN [ok |-> TRUE, val |-> r.val]
        ELSE [ok |-> FALSE, val |-> NoVal]

\* dict.get("result", default): the value of the last member named result.
DictGetResult(obj, default) ==
    LET hits == {k \in 1..Len(obj.items) : obj.items[k].k = <<"result">>}
    IN  IF hits = {} THEN default
        ELSE obj.items[CHOOSE k \in hits : \A h \in hits : h <= k].v

\* "".join(chunks)
RECURSIVE Join(_)
Join(chunks) == IF chunks = <<>> THEN <<>> ELSE Head(chunks) \o Join(Tail(chunks))

\* What parse_agent_response gives back: a returned value or a raised fault.
DReturn(v) == [status |-> "return", val |-> v, exc |-> "none"]
DRaise(e) == [status |-> "raise", val |-> NoVal, exc |-> e]
DNone == [status |-> "none", val |-> NoVal, exc |-> "none"]

\* raw.strip() is non-empty.
NonBlank(raw) == \E k \in 1..Len(raw) : raw[k] # " "

\* Lines 76-81: join the chunks, try json.loads, and unwrap "result".  A JSON
\* value that is no object has no get: the AttributeError is not among the
\* exceptions the except clause names.
JoinAndUnwrap(chunks) ==
    LET raw == Join(chunks)
        data == json_loads(raw)
    IN  IF data.ok
        THEN IF data.val.t = "obj"
             THEN DReturn(DictGetResult(data.val, Str(raw)))
             ELSE DRaise("AttributeError")
        ELSE DReturn(IF NonBlank(raw) THEN Str(raw)
                     ELSE Str(<<"Empty response.">>))

\* Stream events.  kind "chunk" is {"chunk": {"bytes": p}}, "rawrec" is
\* {"bytes": p}, "raw" is the bytes object p itself (isbytes TRUE: p is bytes;
\* FALSE: p is a str), "opaque" is a record with neither key, "other" an
\* object that is neither dict nor bytes.
Event(kind, isbytes, p) == [kind |-> kind, isbytes |-> isbytes, p |-> p]

\* json.dumps(event, default=str) of the records the loop's else branch meets.
JsonDumpsEvent(ev) ==
    IF ev.kind = "chunk"
    THEN << "{", DQ, "chunk", DQ, ":", " ", "{", DQ, "bytes", DQ, ":", " ", DQ >>
         \o (IF ev.isbytes THEN << "b''" >> ELSE <<>>)
         \o << DQ, "}", "}" >>
    ELSE << "{", DQ, "trace", DQ, ":", " ", "1", "}" >>

\* The loop body (lines 53-71) for one event: the fragment appended to
\* chunks, or ok FALSE where decode raises.
EventFragment(ev) ==
    LET dec == IF ev.isbytes THEN Utf8Decode(ev.p) ELSE [ok |-> TRUE, text |-> ev.p]
    IN  IF ev.kind = "chunk"
        THEN IF ev.p # <<>> THEN dec
             ELSE [ok |-> TRUE, text |-> JsonDumpsEvent(ev)]
        ELSE IF ev.kind = "rawrec" THEN dec
        ELSE IF ev.kind = "opaque" THEN [ok |-> TRUE, text |-> JsonDumpsEvent(ev)]
        ELSE IF ev.kind = "raw" THEN dec
        ELSE [ok |-> TRUE, text |-> ev.p]

\* Byte payloads of the events.
B_FULL == << "{", DQ, "result", DQ, ":", " ", DQ, "X", DQ, "}" >>
B_HEAD == << "{", DQ, "result", DQ, ":" >>
B_TAIL == << DQ, "X", DQ, "}" >>
B_FULL_E == << "{", DQ, "result", DQ, ":", DQ, "C3", "A9", DQ, "}" >>
B_HEAD_E == << "{", DQ, "result", DQ, ":", DQ, "C3" >>
BytePayloads ==
    { <<>>, << " " >>, B_FULL, B_HEAD, B_TAIL, B_FULL_E, B_HEAD_E,
      << "hello" >>, << "[", "1", "]" >> }

SplitPayloads == { <<>>, B_FULL, B_HEAD, B_TAIL }

Events ==
    { Event("chunk", TRUE, p) : p \in BytePayloads }
    \cup { Event(k, TRUE, p) : k \in {"rawrec", "raw"}, p \in SplitPayloads }
    \cup { Event("chunk", FALSE, << "hello" >>),
           Event("opaque", FALSE, <<>>),
           Event("other", FALSE, << "hello" >>) }

\* Responses handed to parse_agent_response: stream says what the first truthy
\* one of response["response"], ["ResponseStream"], ["body"] is ("EventStream"
\* an iterator object, "list" a non-empty list, "none" when all three are
\* missing or falsy, an empty list included); result whether the response has
\* a "result" key.
Responses ==
    { [stream |-> st, result |-> FALSE] : st \in {"EventStream", "list"} }
    \cup { [stream |-> st, result |-> r] :
              st \in {"emptylist", "none"}, r \in BOOLEAN }

\* json.dumps(response, default=str) of a response without a usable stream.
JsonDumpsResponse(r) ==
    (IF r.stream = "emptylist"
     THEN << "{", DQ, "response", DQ, ":", " ", "[", "]" >>
     ELSE << "{" >>)
    \o (IF r.result
        THEN (IF r.stream = "emptylist" THEN << ",", " " >> ELSE <<>>)
             \o << DQ, "result", DQ, ":", " ", DQ, "X", DQ >>
        ELSE <<>>)
    \o << "}" >>

\* ------------------------------------------------------------------ state

VARIABLES
    captured_urls,  \* _captured_urls: the process-wide list of URLs
    captured_by,    \* history: for each entry, the invocation whose worker wrote it
    first_since,    \* history, per invocation: the first URL written to the list
                    \* since the invocation's own _clear_urls()
    pc,             \* per invocation: where its thread of control stands
    payload,        \* per invocation: the payload invoke was called with
    graph_input,    \* per invocation: the message list passed to graph.invoke
    tool_message,   \* per invocation: the tool message the graph holds, if any
    thread,         \* per invocation: the worker thread t
    result_queue,   \* per invocation: result_queue
    elapsed,        \* per invocation: elapsed
    urls,           \* per invocation: the local urls = _get_urls()
    urls_by,        \* history: the writers of the entries of urls
    acq,            \* per invocation: how _call_github_with_timeout ended
    auth_raised,    \* history: interrupts raised by the invocation's acquirer
    resp,           \* per invocation: how invoke ended
    sys_stdout,     \* sys.stdout and sys.stderr, replaced and restored together
    old_stdout,     \* per worker: old_stdout, old_stderr as saved by _run
    query_params,   \* the client: "session_id" in st.query_params
    session_state,  \* the client: st.session_state
    c_pc,           \* the client: where the script run stands
    c_event,        \* the client: what triggered the script run
    c_turn,         \* the client: the invocation that serves the pending call
    c_runs,         \* history: script runs so far
    auto_invoked,   \* history: automatic invocations since the last redirect
    turn_history,   \* history, per invocation: the session's messages before it
    d_pc,           \* the decoder: where parse_agent_response stands
    d_response,     \* the decoder: the response it was called with
    d_seen,         \* history: the events the loop has taken from the stream
    d_fault,        \* history: what ended the loop early ("none", "iter", "decode")
    chunks,         \* the decoder: chunks
    d_out           \* the decoder: what parse_agent_response gave back

avars == << captured_urls, captured_by, first_since, pc, payload, graph_input,
            tool_message, thread, result_queue, elapsed, urls, urls_by, acq,
            auth_raised, resp, sys_stdout, old_stdout >>
svars == << sys_stdout, old_stdout >>
cvars == << query_params, session_state, c_pc, c_event, c_turn, c_runs,
            auto_invoked, turn_history >>
dvars == << d_pc, d_response, d_seen, d_fault, chunks, d_out >>
vars == << avars, dvars, cvars >>

NoAcq == [kind |-> "none", value |-> <<>>, exc |-> NoExc, src |-> "none",
          url |-> None, by |-> 0]
NoResp == [kind |-> "none", isstr |-> TRUE, result |-> <<>>, via |-> "none",
           exc |-> NoExc]
NoMessage == [present |-> FALSE, content |-> <<>>]

\* What sys.stdout / sys.stderr can be: the interpreter's original streams, or
\* the _URLCapturingWriter pair made by the worker of invocation i.
OriginalStreams == [writer |-> 0]
CapturingWriter(i) == [writer |-> i]

\* st.session_state of a fresh browser session (no key set yet: a missing
\* warmed_up or oauth_handled reads as FALSE, missing messages as empty).
FreshSession(id) ==
    [session_id |-> id, warmed_up |-> FALSE, oauth_handled |-> FALSE,
     messages |-> <<>>]

Init ==
    /\ captured_urls = <<>>
    /\ captured_by = <<>>
    /\ first_since = [i \in Inv |-> None]
    /\ pc = [i \in Inv |-> "idle"]
    /\ payload = [i \in Inv |-> NoPayload]
    /\ graph_input = [i \in Inv |-> <<>>]
    /\ tool_message = [i \in Inv |-> NoMessage]
    /\ thread = [i \in Inv |-> "unstarted"]
    /\ result_queue = [i \in Inv |-> <<>>]
    /\ elapsed = [i \in Inv |-> 0]
    /\ urls = [i \in Inv |-> <<>>]
    /\ urls_by = [i \in Inv |-> <<>>]
    /\ acq = [i \in Inv |-> NoAcq]
    /\ auth_raised = [i \in Inv |-> 0]
    /\ resp = [i \in Inv |-> NoResp]
    /\ sys_stdout = OriginalStreams
    /\ old_stdout = [i \in Inv |-> OriginalStreams]
    /\ query_params = FALSE
    /\ session_state = FreshSession(1)
    /\ c_pc = "ready"
    /\ c_event = "none"
    /\ c_turn = 0
    /\ c_runs = 0
    /\ auto_invoked = 0
    /\ turn_history = [i \in Inv |-> <<>>]
    /\ d_pc = "idle"
    /\ d_response = [stream |-> "none", result |-> FALSE]
    /\ d_seen = <<>>
    /\ d_fault = "none"
    /\ chunks = <<>>
    /\ d_out = DNone

\* ---------------------------------------------------------------- channel

\* _add_url under the lock: append unless the URL is already in the list.
\* Returns the new list and the new writers' list.
_add_url(list, by, url, w) ==
    IF \E k \in 1..Len(list) : list[k] = url
    THEN << list, by >>
    ELSE << Append(list, url), Append(by, w) >>

\* ----------------------------------------------------------- orchestrator

Returned(text, via) ==
    [kind |-> "returned", isstr |-> TRUE, result |-> text, via |-> via,
     exc |-> NoExc]

\* A final message whose content is a list of content blocks, not a string.
ReturnedBlocks ==
    [kind |-> "returned", isstr |-> FALSE, result |-> <<>>, via |-> "return",
     exc |-> NoExc]

Escaped(e) ==
    [kind |-> "raised", isstr |-> TRUE, result |-> <<>>, via |-> "escaped",
     exc |-> e]

\* The except clauses of invoke (lines 280-292) applied to a fault raised by
\* graph.invoke.  A fault outside Exception is caught by neither clause.
invoke_except(e) ==
    IF e.cls = "AuthRequiredException"
    THEN Returned(e.text, "except_auth")
    ELSE IF e.cls = "Exception"
    THEN LET url == _extract_auth_url(e.text)
         IN  IF url # None
             THEN Returned(AuthRequiredMessage(url), "except_url")
             ELSE Returned(<< W("WARN Backend Error:") >> \o e.text, "except_error")
    ELSE Escaped(e)

\* A variant of invoke that takes a payload for a warmup request only when it
\* carries no prompt.
Invoke_PromptFirst(i, p) ==
    /\ pc[i] = "idle"
    /\ payload' = [payload EXCEPT ![i] = p]
    /\ IF ~p.isdict
       THEN /\ resp' = [resp EXCEPT ![i] =
                  Escaped(Exc("Exception", << W("object has no attribute get") >>))]
            /\ pc' = [pc EXCEPT ![i] = "done"]
            /\ UNCHANGED graph_input
       ELSE IF p.type = "warmup" /\ p.prompt = "None"
       THEN /\ resp' = [resp EXCEPT ![i] =
                  Returned(<< W("Agent is warm and ready.") >>, "warmup")]
            /\ pc' = [pc EXCEPT ![i] = "done"]
            /\ UNCHANGED graph_input
       ELSE /\ graph_input' = [graph_input EXCEPT ![i] =
                  << IF p.prompt = "None" THEN "Hello" ELSE p.prompt >>]
            /\ pc' = [pc EXCEPT ![i] = "chatbot"]
            /\ UNCHANGED resp
    /\ UNCHANGED << captured_urls, captured_by, first_since, tool_message, thread,
                    result_queue, elapsed, urls, urls_by, acq, auth_raised >>
    /\ UNCHANGED << svars, dvars, cvars >>

\* invoke up to graph.invoke (lines 271-277).
Invoke(i, p) ==
    /\ pc[i] = "idle"
    /\ payload' = [payload EXCEPT ![i] = p]
    /\ IF ~p.isdict
       THEN \* payload.get raises AttributeError outside the try block
            /\ resp' = [resp EXCEPT ![i] =
                  Escaped(Exc("Exception", << W("object has no attribute get") >>))]
            /\ pc' = [pc EXCEPT ![i] = "done"]
            /\ UNCHANGED graph_input
       ELSE IF p.type = "warmup"
       THEN /\ resp' = [resp EXCEPT ![i] =
                  Returned(<< W("Agent is warm and ready.") >>, "warmup")]
            /\ pc' = [pc EXCEPT ![i] = "done"]
            /\ UNCHANGED graph_input
       ELSE /\ graph_input' = [graph_input EXCEPT ![i] =
                  << IF p.prompt = "None" THEN "Hello" ELSE p.prompt >>]
            /\ pc' = [pc EXCEPT ![i] = "chatbot"]
            /\ UNCHANGED resp
    /\ UNCHANGED << captured_urls, captured_by, first_since, tool_message, thread,
                    result_queue, elapsed, urls, urls_by, acq, auth_raised >>
    /\ UNCHANGED << svars, dvars, cvars >>

\* chatbot_node: the model asks for the tool (tools_condition routes to "tools").
ChatbotToolCall(i) ==
    /\ pc[i] = "chatbot"
    /\ ~tool_message[i].present
    /\ pc' = [pc EXCEPT ![i] = "tools"]
    /\ UNCHANGED << captured_urls, captured_by, first_since, payload, graph_input,
                    tool_message, thread, result_queue, elapsed, urls, urls_by,
                    acq, auth_raised, resp >>
    /\ UNCHANGED << svars, dvars, cvars >>

\* chatbot_node: the model gives its final message; graph.invoke returns and
\* invoke returns the content of the last message (line 278).
ChatbotAnswer(i) ==
    /\ pc[i] = "chatbot"
    /\ \/ \E t \in LLMTexts : resp' = [resp EXCEPT ![i] = Returned(t, "return")]
       \/ /\ tool_message[i].present
          /\ resp' = [resp EXCEPT ![i] =
                Returned(tool_message[i].content, "return")]
       \/ resp' = [resp EXCEPT ![i] = ReturnedBlocks]
    /\ pc' = [pc EXCEPT ![i] = "done"]
    /\ UNCHANGED << captured_urls, captured_by, first_since, payload, graph_input,
                    tool_message, thread, result_queue, elapsed, urls, urls_by,
                    acq, auth_raised >>
    /\ UNCHANGED << svars, dvars, cvars >>

\* chatbot_node: the model call raises; the fault leaves graph.invoke.
ChatbotFault(i) ==
    /\ pc[i] = "chatbot"
    /\ \E cls \in {"Exception", "BaseException"}, t \in ErrTexts :
          resp' = [resp EXCEPT ![i] = invoke_except(Exc(cls, t))]
    /\ pc' = [pc EXCEPT ![i] = "done"]
    /\ UNCHANGED << captured_urls, captured_by, first_since, payload, graph_input,
                    tool_message, thread, result_queue, elapsed, urls, urls_by,
                    acq, auth_raised >>
    /\ UNCHANGED << svars, dvars, cvars >>

\* --------------------------------------------------------------- acquirer

\* _call_github_with_timeout up to t.start() (lines 163-185): the channel is
\* cleared, a fresh result_queue is made and the worker is started.
CallGithub(i) ==
    /\ pc[i] = "tools"
    /\ captured_urls' = <<>>
    /\ captured_by' = <<>>
    /\ first_since' = [first_since EXCEPT ![i] = None]
    /\ result_queue' = [result_queue EXCEPT ![i] = <<>>]
    /\ thread' = [thread EXCEPT ![i] = "started"]
    /\ elapsed' = [elapsed EXCEPT ![i] = 0]
    /\ pc' = [pc EXCEPT ![i] = "poll"]
    /\ UNCHANGED << payload, graph_input, tool_message, urls, urls_by, acq,
                    auth_raised, resp, svars >>
    /\ UNCHANGED << dvars, cvars >>

\* The frame of _call_github_with_timeout is left: its locals (result_queue,
\* elapsed, urls) are gone.  A worker that is still running keeps its reference
\* to result_queue, but nothing reads what it posts there.
LeaveAcquirer(i) ==
    /\ result_queue' = [result_queue EXCEPT ![i] = <<>>]
    /\ elapsed' = [elapsed EXCEPT ![i] = 0]
    /\ urls' = [urls EXCEPT ![i] = <<>>]
    /\ urls_by' = [urls_by EXCEPT ![i] = <<>>]

InAcquirer(i) ==
    pc[i] \in {"poll", "raise_poll", "raise_final", "final", "timeout"}

\* result_queue.put(r) by worker i.
Put(i, r) ==
    result_queue' = [result_queue EXCEPT ![i] =
        IF InAcquirer(i) THEN Append(@, r) ELSE <<>>]

\* _run, lines 169-172: the worker saves the current sys.stdout, sys.stderr
\* and puts its capturing writers in their place, process-wide.
WorkerStart(i) ==
    /\ thread[i] = "started"
    /\ old_stdout' = [old_stdout EXCEPT ![i] = sys_stdout]
    /\ sys_stdout' = CapturingWriter(i)
    /\ thread' = [thread EXCEPT ![i] = "running"]
    /\ UNCHANGED << captured_urls, captured_by, first_since, pc, payload,
                    graph_input, tool_message, result_queue, elapsed, urls,
                    urls_by, acq, auth_raised, resp >>
    /\ UNCHANGED << dvars, cvars >>

\* _run, lines 178-180: the finally clause puts back what the worker saved
\* (old_stdout is a local of _run, gone when the worker ends).
RestoreStreams(i) ==
    /\ sys_stdout' = old_stdout[i]
    /\ old_stdout' = [old_stdout EXCEPT ![i] = OriginalStreams]

\* The provider client, running on worker i, logs or prints a text:
\* _AuthLogHandler.emit and _URLCapturingWriter.write scan it and add the URL
\* they find to the process-wide list.
WorkerEmit(i, text) ==
    /\ thread[i] = "running"
    /\ LET url == _extract_auth_url(text)
           new == _add_url(captured_urls, captured_by, url, i)
       IN  /\ url # None
           /\ captured_urls' = new[1]
           /\ captured_by' = new[2]
           /\ first_since' = [k \in Inv |->
                 IF InAcquirer(k) /\ first_since[k] = None THEN url
                 ELSE first_since[k]]
    /\ UNCHANGED << pc, payload, graph_input, tool_message, thread,
                    result_queue, elapsed, urls, urls_by, acq, auth_raised, resp >>
    /\ UNCHANGED << svars, dvars, cvars >>

\* _run: _get_github_data returned; the worker posts ("ok", data) and ends.
WorkerOk(i, data) ==
    /\ thread[i] = "running"
    /\ Put(i, [status |-> "ok", text |-> data])
    /\ RestoreStreams(i)
    /\ thread' = [thread EXCEPT ![i] = "finished"]
    /\ UNCHANGED << captured_urls, captured_by, first_since, pc, payload, graph_input,
                    tool_message, elapsed, urls, urls_by, acq, auth_raised,
                    resp >>
    /\ UNCHANGED << dvars, cvars >>

\* _run: _get_github_data raised e; the worker posts ("error", e) and ends.
WorkerFail(i, text) ==
    /\ thread[i] = "running"
    /\ Put(i, [status |-> "error", text |-> text])
    /\ RestoreStreams(i)
    /\ thread' = [thread EXCEPT ![i] = "finished"]
    /\ UNCHANGED << captured_urls, captured_by, first_since, pc, payload, graph_input,
                    tool_message, elapsed, urls, urls_by, acq, auth_raised,
                    resp >>
    /\ UNCHANGED << dvars, cvars >>

AcqReturn(value) ==
    [kind |-> "return", value |-> value, exc |-> NoExc, src |-> "queue_ok",
     url |-> None, by |-> 0]

AcqAuth(url, src, by) ==
    [kind |-> "raise", value |-> <<>>,
     exc |-> Exc("AuthRequiredException", AuthRequiredMessage(url)),
     src |-> src, url |-> url, by |-> by]

AcqError(text) ==
    [kind |-> "raise", value |-> <<>>, exc |-> Exc("Exception", text),
     src |-> "queue_error", url |-> None, by |-> 0]

AcqTimeout(captured) ==
    [kind |-> "raise", value |-> <<>>,
     exc |-> Exc("AuthRequiredException", TimeoutMessage(captured)),
     src |-> "timeout", url |-> None, by |-> 0]

\* The acquirer of invocation i ends with outcome a.
Ends(i, a) ==
    /\ acq' = [acq EXCEPT ![i] = a]
    /\ auth_raised' = [auth_raised EXCEPT ![i] =
          IF a.kind = "raise" /\ a.exc.cls = "AuthRequiredException"
          THEN @ + 1 ELSE @]
    /\ pc' = [pc EXCEPT ![i] = "tool_done"]
    /\ LeaveAcquirer(i)

\* Lines 190-202: what a result taken from result_queue turns into.
QueueOutcome(r) ==
    IF r.status = "ok" THEN AcqReturn(r.text)
    ELSE LET url == _extract_auth_url(r.text)
         IN  IF url # None THEN AcqAuth(url, "queue_error_url", 0)
             ELSE AcqError(r.text)

\* A variant of the loop body that reads the channel before it looks for a
\* posted result.
Poll_ChannelFirst(i) ==
    /\ pc[i] = "poll"
    /\ IF captured_urls # <<>>
       THEN /\ urls' = [urls EXCEPT ![i] = captured_urls]
            /\ urls_by' = [urls_by EXCEPT ![i] = captured_by]
            /\ pc' = [pc EXCEPT ![i] = "raise_poll"]
            /\ elapsed' = [elapsed EXCEPT ![i] = 0]
            /\ UNCHANGED << acq, auth_raised, result_queue >>
       ELSE IF result_queue[i] # <<>>
       THEN Ends(i, QueueOutcome(Head(result_queue[i])))
       ELSE /\ elapsed' = [elapsed EXCEPT ![i] = @ + POLL_SECONDS]
            /\ pc' = [pc EXCEPT ![i] =
                  IF elapsed[i] + POLL_SECONDS < timeout_seconds
                  THEN "poll" ELSE "final"]
            /\ UNCHANGED << acq, auth_raised, result_queue, urls, urls_by >>
    /\ UNCHANGED << captured_urls, captured_by, first_since, payload, graph_input,
                    tool_message, thread, resp >>
    /\ UNCHANGED << svars, dvars, cvars >>

\* One pass of the loop body (lines 187-213): after t.join(timeout=2), a
\* posted result is taken if there is one; only if result_queue is empty is
\* the channel read (urls = _get_urls()): a non-empty copy leads to the raise,
\* an empty one to elapsed += 2 and the loop test.
Poll(i) ==
    /\ pc[i] = "poll"
    /\ IF result_queue[i] # <<>>
       THEN Ends(i, QueueOutcome(Head(result_queue[i])))
       ELSE /\ urls' = [urls EXCEPT ![i] = captured_urls]
            /\ urls_by' = [urls_by EXCEPT ![i] = captured_by]
            /\ IF captured_urls # <<>>
               THEN /\ pc' = [pc EXCEPT ![i] = "raise_poll"]
                    /\ elapsed' = [elapsed EXCEPT ![i] = 0]
               ELSE /\ elapsed' = [elapsed EXCEPT ![i] = @ + POLL_SECONDS]
                    /\ pc' = [pc EXCEPT ![i] =
                          IF elapsed[i] + POLL_SECONDS < timeout_seconds
                          THEN "poll" ELSE "final"]
            /\ UNCHANGED << acq, auth_raised, result_queue >>
    /\ UNCHANGED << captured_urls, captured_by, first_since, payload, graph_input,
                    tool_message, thread, resp >>
    /\ UNCHANGED << svars, dvars, cvars >>

\* The URL the interrupt is built from: urls[0] of the local copy.
ReportedUrl(i) == urls[i][1]

\* Lines 207-211 and 218-222: raise the interrupt built from the local copy.
RaiseAuth(i) ==
    /\ pc[i] \in {"raise_poll", "raise_final"}
    /\ Ends(i, AcqAuth(ReportedUrl(i),
                       IF pc[i] = "raise_poll" THEN "channel_poll"
                       ELSE "channel_final",
                       urls_by[i][1]))
    /\ UNCHANGED << captured_urls, captured_by, first_since, payload, graph_input,
                    tool_message, thread, resp >>
    /\ UNCHANGED << svars, dvars, cvars >>

\* A variant of the final check that first looks for a posted result, as the
\* polls do.
FinalCheck_QueueFirst(i) ==
    /\ pc[i] = "final"
    /\ IF result_queue[i] # <<>>
       THEN Ends(i, QueueOutcome(Head(result_queue[i])))
       ELSE /\ urls' = [urls EXCEPT ![i] = captured_urls]
            /\ urls_by' = [urls_by EXCEPT ![i] = captured_by]
            /\ elapsed' = [elapsed EXCEPT ![i] = 0]
            /\ pc' = [pc EXCEPT ![i] =
                  IF captured_urls # <<>> THEN "raise_final" ELSE "timeout"]
            /\ UNCHANGED << result_queue, acq, auth_raised >>
    /\ UNCHANGED << captured_urls, captured_by, first_since, payload, graph_input,
                    tool_message, thread, resp >>
    /\ UNCHANGED << svars, dvars, cvars >>

\* The final check (lines 215-217), reached when the loop test fails: the
\* channel is read once more; result_queue is not looked at.
FinalCheck(i) ==
    /\ pc[i] = "final"
    /\ urls' = [urls EXCEPT ![i] = captured_urls]
    /\ urls_by' = [urls_by EXCEPT ![i] = captured_by]
    /\ elapsed' = [elapsed EXCEPT ![i] = 0]
    /\ pc' = [pc EXCEPT ![i] =
          IF captured_urls # <<>> THEN "raise_final" ELSE "timeout"]
    /\ UNCHANGED << captured_urls, captured_by, first_since, payload, graph_input,
                    tool_message, thread, result_queue, acq, auth_raised,
                    resp >>
    /\ UNCHANGED << svars, dvars, cvars >>

\* Lines 224-230: the timeout is raised as an AuthRequiredException whose
\* message prints the channel as it is now.
TimeoutRaise(i) ==
    /\ pc[i] = "timeout"
    /\ Ends(i, AcqTimeout(captured_urls))
    /\ UNCHANGED << captured_urls, captured_by, first_since, payload, graph_input,
                    tool_message, thread, resp >>
    /\ UNCHANGED << svars, dvars, cvars >>

\* ----------------------------------------------------------- tool wrapper

\* fetch_github_profile (lines 233-241) applied to the acquirer's outcome:
\* a value is returned, an AuthRequiredException is re-raised, any other
\* Exception becomes the returned text "Error: ...".
fetch_github_profile(a) ==
    IF a.kind = "return" THEN [kind |-> "return", value |-> a.value, exc |-> NoExc]
    ELSE IF a.exc.cls = "AuthRequiredException"
    THEN [kind |-> "raise", value |-> <<>>, exc |-> a.exc]
    ELSE IF a.exc.cls = "Exception"
    THEN [kind |-> "return", value |-> << W("WARN Error:") >> \o a.exc.text,
          exc |-> NoExc]
    ELSE [kind |-> "raise", value |-> <<>>, exc |-> a.exc]

\* The content of the tool message ToolNode makes of a handled tool error.
ToolErrorContent(e) ==
    << W("Error:"), W(e.cls) >> \o e.text \o << W("Please fix your mistakes.") >>

\* The "tools" node finishes: the tool's value becomes a tool message and the
\* graph returns to the chatbot; a fault raised by the tool is either handled
\* by ToolNode (tool-error message, graph goes on) or leaves graph.invoke and
\* reaches the except clauses of invoke.
ToolNodeFinish(i) ==
    /\ pc[i] = "tool_done"
    /\ LET out == fetch_github_profile(acq[i])
       IN  IF out.kind = "return"
           THEN /\ tool_message' = [tool_message EXCEPT ![i] =
                      [present |-> TRUE, content |-> out.value]]
                /\ pc' = [pc EXCEPT ![i] = "chatbot"]
                /\ UNCHANGED resp
           ELSE \E h \in ToolNodeHandlesErrors :
                  IF h /\ IsException(out.exc)
                  THEN /\ tool_message' = [tool_message EXCEPT ![i] =
                             [present |-> TRUE,
                              content |-> ToolErrorContent(out.exc)]]
                       /\ pc' = [pc EXCEPT ![i] = "chatbot"]
                       /\ UNCHANGED resp
                  ELSE /\ resp' = [resp EXCEPT ![i] = invoke_except(out.exc)]
                       /\ pc' = [pc EXCEPT ![i] = "done"]
                       /\ UNCHANGED tool_message
    /\ UNCHANGED << captured_urls, captured_by, first_since, payload,
                    graph_input, thread, result_queue, elapsed, urls, urls_by,
                    acq, auth_raised >>
    /\ UNCHANGED << svars, dvars, cvars >>

\* ---------------------------------------------------- decoder operations

\* Lines 42-49: pick the event stream; without one, give back
\* response["result"] or the dump of the response.
ParseStart(r) ==
    /\ d_pc = "idle"
    /\ d_response' = r
    /\ IF r.stream \in {"none", "emptylist"}
       THEN /\ d_out' = DReturn(IF r.result THEN Str(<< "X" >>)
                                ELSE Str(JsonDumpsResponse(r)))
            /\ d_pc' = "done"
       ELSE /\ d_pc' = "loop"
            /\ UNCHANGED d_out
    /\ UNCHANGED << d_seen, d_fault, chunks, avars, cvars >>

\* A variant of the except clause that gives up what was decoded so far.
AfterFault_DropsChunks(ch) == DReturn(Str(<< "Stream read error" >>))

\* The except clause of the loop (lines 72-74) followed by lines 76-81.
AfterFault(ch) ==
    IF ch = <<>> THEN DReturn(Str(<< "Stream read error" >>))
    ELSE JoinAndUnwrap(ch)

\* One iteration of the loop: the stream yields ev.
NextEvent(ev) ==
    /\ d_pc = "loop"
    /\ Len(d_seen) < MaxEvents
    /\ d_seen' = Append(d_seen, ev)
    /\ LET f == EventFragment(ev)
       IN  IF f.ok
           THEN /\ chunks' = Append(chunks, f.text)
                /\ UNCHANGED << d_pc, d_fault, d_out >>
           ELSE /\ d_fault' = "decode"
                /\ d_out' = AfterFault(chunks)
                /\ d_pc' = "done"
                /\ UNCHANGED chunks
    /\ UNCHANGED << d_response, avars, cvars >>

\* Iterating the stream raises instead of yielding the next event.
StreamFault ==
    /\ d_pc = "loop"
    /\ d_response.stream = "EventStream"
    /\ d_fault' = "iter"
    /\ d_out' = AfterFault(chunks)
    /\ d_pc' = "done"
    /\ UNCHANGED << d_response, d_seen, chunks, avars, cvars >>

\* The stream is exhausted: lines 76-81.
StreamEnd ==
    /\ d_pc = "loop"
    /\ d_response.stream = "list" => d_seen # <<>>
    /\ d_out' = JoinAndUnwrap(chunks)
    /\ d_pc' = "done"
    /\ UNCHANGED << d_response, d_seen, d_fault, chunks, avars, cvars >>

\* ------------------------------------------------------------------- next

\* What the worker and the acquirer of invocation i can do.
AcquirerStep(i) ==
    \/ CallGithub(i)
    \/ WorkerStart(i)
    \/ \E t \in LogTexts : WorkerEmit(i, t)
    \/ \E d \in DataTexts : WorkerOk(i, d)
    \/ \E t \in ErrTexts : WorkerFail(i, t)
    \/ Poll(i)
    \/ RaiseAuth(i)
    \/ FinalCheck(i)
    \/ TimeoutRaise(i)

\* One turn, from the call of invoke to its end, in full.
Next ==
    \/ \E p \in Payloads : Invoke(1, p)
    \/ ChatbotToolCall(1)
    \/ ChatbotAnswer(1)
    \/ ChatbotFault(1)
    \/ AcquirerStep(1)
    \/ ToolNodeFinish(1)

Spec == Init /\ [][Next]_vars

\* Two invocations, in any interleaving (one after the other or overlapping),
\* each followed from invoke to the end of its _call_github_with_timeout.
PromptPayload == [isdict |-> TRUE, type |-> "None", prompt |-> PROMPT]
WarmupPayload == [isdict |-> TRUE, type |-> "warmup", prompt |-> PROMPT]

NextAcquirers ==
    \/ \E i \in Inv, p \in {PromptPayload, WarmupPayload} : Invoke(i, p)
    \/ \E i \in Inv : ChatbotToolCall(i)
    \/ \E i \in Inv : AcquirerStep(i)

SpecAcquirers == Init /\ [][NextAcquirers]_vars

\* The client's decoder, on any response and any stream of at most MaxEvents
\* events.
NextDecoder ==
    \/ \E r \in Responses : ParseStart(r)
    \/ \E ev \in Events : NextEvent(ev)
    \/ StreamFault
    \/ StreamEnd

SpecDecoder == Init /\ [][NextDecoder]_vars

\* ----------------------------------------------------------------- client

\* text.startswith(AUTH_PREFIX), the test of render_response and of the
\* OAuth-callback branch (src/app.py lines 95 and 145).
StartsWithAuthPrefix(text) ==
    /\ text # <<>>
    /\ text[1].pre # <<>>
    /\ text[1].pre[1] = AUTH_PREFIX

\* The longest number of script runs of the client.
MaxRuns == 3

\* An entry of st.session_state.messages.
Message(role, content) == [role |-> role, content |-> content]

\* What triggers a script run: the browser coming back from the OAuth
\* redirect (a page load with session_id in the query parameters, which
\* starts a fresh st.session_state), a plain rerun, a click on Switch, or a
\* command typed into the chat input.
ClientEvents == {"redirect", "rerun", "switch", "prompt"}

\* client.invoke_agent_runtime: the call is served by the next invocation of
\* the agent that has not been used, or (0) raises on the client's side.
Server ==
    {0} \cup {i \in Inv : pc[i] = "idle" /\ \A j \in Inv : pc[j] = "idle" => i <= j}

\* invoke_agent (lines 84-90) is entered: the payload holds the prompt only.
\* turn_history records the session's messages the call leaves behind.
invoke_agent(before) ==
    \E i \in Server :
        /\ c_turn' = i
        /\ turn_history' = IF i = 0 THEN turn_history
                           ELSE [turn_history EXCEPT ![i] = before]

\* Lines 173-180: the user-input part of the script, up to the call.
UserInput(ss, ev) ==
    IF ev = "prompt"
    THEN /\ session_state' =
               [ss EXCEPT !.messages = Append(@, Message("user", << W(PROMPT) >>)),
                          !.oauth_handled = FALSE]
         /\ c_pc' = "await_user"
         /\ invoke_agent(ss.messages)
    ELSE /\ session_state' = ss
         /\ c_pc' = "ready"
         /\ c_turn' = 0
         /\ UNCHANGED turn_history

\* A variant of the callback branch that leaves the query parameters alone.
OAuthCallback_KeepsParams(ss, n) ==
    /\ session_state' = [ss EXCEPT !.oauth_handled = TRUE]
    /\ query_params' = TRUE
    /\ auto_invoked' = n + 1
    /\ c_pc' = "await_auto"
    /\ invoke_agent(ss.messages)

\* Lines 136-143: the OAuth-callback branch, up to its call of invoke_agent;
\* n counts the automatic invocations made for this redirect so far.
OAuthCallback(ss, n) ==
    /\ session_state' = [ss EXCEPT !.oauth_handled = TRUE]
    /\ query_params' = FALSE
    /\ auto_invoked' = n + 1
    /\ c_pc' = "await_auto"
    /\ invoke_agent(ss.messages)

\* One run of the script from its top (lines 20-38, 106-143, 160-180), up to
\* its end or to its first call of invoke_agent; warm_ok says whether the
\* warmup call, if made, succeeds.
ScriptRun(ev, warm_ok) ==
    /\ c_pc = "ready"
    /\ c_runs < MaxRuns
    /\ c_runs' = c_runs + 1
    /\ c_event' = ev
    /\ LET oauth_callback == (ev = "redirect") \/ query_params
           ss0 == IF ev = "redirect" THEN FreshSession(c_runs + 1)
                  ELSE session_state
           ss1 == IF ss0.warmed_up THEN ss0
                  ELSE [ss0 EXCEPT !.warmed_up = warm_ok]
           n == IF ev = "redirect" THEN 0 ELSE auto_invoked
       IN  IF ev = "switch"
           THEN /\ session_state' = FreshSession(c_runs + 1)
                /\ query_params' = FALSE
                /\ c_pc' = "ready"
                /\ c_turn' = 0
                /\ UNCHANGED << auto_invoked, turn_history >>
           ELSE IF oauth_callback /\ ~ss1.oauth_handled
           THEN OAuthCallback(ss1, n)
           ELSE /\ UserInput(ss1, ev)
                /\ query_params' = oauth_callback
                /\ auto_invoked' = n
    /\ UNCHANGED << avars, dvars >>

\* The agent takes up the pending call: invoke is entered with the payload
\* invoke_agent sent.
AgentServe ==
    /\ c_pc \in {"await_auto", "await_user"}
    /\ c_turn # 0
    /\ Invoke(c_turn, PromptPayload)

\* invoke_agent returns or raises and the script run goes on to its end
\* (lines 145-158 of the callback branch, then the user-input part; lines
\* 181-198 of the user-input part).
ClientReceive ==
    /\ c_pc \in {"await_auto", "await_user"}
    /\ IF c_turn = 0 THEN TRUE ELSE pc[c_turn] = "done"
    /\ LET ok == /\ c_turn # 0
                 /\ resp[c_turn].kind = "returned"
                 /\ resp[c_turn].isstr
           full_response == IF ok THEN resp[c_turn].result ELSE <<>>
       IN  IF c_pc = "await_auto"
           THEN IF ok /\ ~StartsWithAuthPrefix(full_response)
                THEN /\ session_state' =
                           [session_state EXCEPT !.messages = @ \o
                               << Message("user", << W(PROMPT) >>),
                                  Message("assistant", full_response) >>]
                     /\ c_pc' = "ready"
                     /\ c_turn' = 0
                     /\ UNCHANGED turn_history
                ELSE UserInput(session_state, c_event)
           ELSE /\ session_state' =
                      IF ok
                      THEN [session_state EXCEPT !.messages =
                               Append(@, Message("assistant", full_response))]
                      ELSE session_state
                /\ c_pc' = "ready"
                /\ c_turn' = 0
                /\ UNCHANGED turn_history
    /\ UNCHANGED << query_params, c_event, c_runs, auto_invoked >>
    /\ UNCHANGED << avars, dvars >>

\* The client's script runs of one browser, with the agent's turns that serve
\* its calls (the language model answers or fails; it asks for no tool).
NextClient ==
    \/ \E ev \in ClientEvents, warm_ok \in BOOLEAN : ScriptRun(ev, warm_ok)
    \/ AgentServe
    \/ \E i \in Inv : ChatbotAnswer(i)
    \/ \E i \in Inv : ChatbotFault(i)
    \/ ClientReceive

SpecClient == Init /\ [][NextClient]_vars

\* ------------------------------------------------------------- properties

\* The message text holds exactly one URL, the given one, inside the link.
Carries(text, url) ==
    /\ url # None
    /\ \E k \in 1..Len(text) :
          /\ text[k].url = url.url
          /\ text[k].post = url.post \o <<")">>
          /\ \A j \in 1..Len(text) : text[j].url # "" => j = k

IsAuthUrl(u) == StartsWithAgentCore(u) \/ HasAuthorizeOrOauth(u)

FromChannel(a) == a.src \in {"channel_poll", "channel_final"}
IsInterrupt(a) == FromChannel(a) \/ a.src = "queue_error_url"
Raising(i) == pc[i] \in {"raise_poll", "raise_final"}

\* C1: the URL an invocation reports from the channel was written there by
\* that invocation's own worker (after its own _clear_urls()), never on
\* behalf of an earlier or a different invocation.
C1_ReportedUrlIsOwn ==
    \A i \in Inv : FromChannel(acq[i]) => acq[i].by = i

\* C2: when the loop has ended by the bound and the final check finds a URL in
\* the channel, the call raises the interrupt whose message carries exactly
\* the channel's first URL, whatever result_queue holds by then.
C2_FinalCheckRaisesInterrupt ==
    [][\A i \in Inv :
         /\ (pc[i] = "final" /\ pc'[i] # "final" /\ captured_urls # <<>>)
                => (pc'[i] = "raise_final" /\ urls'[i] = captured_urls)
         /\ (pc[i] = "raise_final" /\ pc'[i] # "raise_final")
                => /\ acq'[i].kind = "raise"
                   /\ acq'[i].exc.cls = "AuthRequiredException"
                   /\ Carries(acq'[i].exc.text, urls[i][1])
      ]_vars

\* C2 witness: the final check found a URL while a token result, posted after
\* the last poll, waits in result_queue.
C2_Witness ==
    \E i \in Inv :
        /\ pc[i] = "raise_final"
        /\ result_queue[i] # <<>>
        /\ result_queue[i][1].status = "ok"

\* C3: the timeout is a condition different from the authorization interrupt:
\* it is not raised as the interrupt's exception and invoke does not handle it
\* in its authorization branch.
C3_TimeoutDistinct ==
    \A i \in Inv :
        acq[i].src = "timeout"
            => /\ acq[i].exc.cls # "AuthRequiredException"
               /\ resp[i].via # "except_auth"

\* C4: a result of invoke begins with the sentinel the client tests for if and
\* only if the turn ended in the authorization-required outcome.
C4_SentinelIffInterrupted ==
    \A i \in Inv :
        resp[i].kind = "returned"
            => ( (resp[i].isstr /\ StartsWithAuthPrefix(resp[i].result))
                 <=> resp[i].via \in {"except_auth", "except_url"} )

\* C5: once the acquirer has raised the interrupt, the tool node leaves no
\* tool message, the graph is not resumed, and invoke returns the interrupt's
\* message, which carries the URL the acquirer reported.
C5_InterruptPropagates ==
    \A i \in Inv :
        (IsInterrupt(acq[i]) /\ pc[i] \in {"chatbot", "done"})
            => /\ pc[i] = "done"
               /\ ~tool_message[i].present
               /\ resp[i].kind = "returned"
               /\ resp[i].via = "except_auth"
               /\ resp[i].result = acq[i].exc.text
               /\ Carries(resp[i].result, acq[i].url)

\* C6: every invocation of invoke that ends returns {result: string} in one of
\* its three variants; no fault leaves invoke.
C6_InvokeAlwaysReturns ==
    \A i \in Inv :
        pc[i] = "done"
            => /\ resp[i].kind = "returned"
               /\ resp[i].isstr
               /\ resp[i].via \in {"warmup", "return", "except_auth",
                                   "except_url", "except_error"}

\* C7: when the worker's provider call raised a fault without a URL and the
\* channel holds none, the turn ends in the Error variant of invoke.
C7_ProviderFaultGivesError ==
    \A i \in Inv :
        (acq[i].src = "queue_error" /\ captured_urls = <<>> /\ pc[i] = "done")
            => /\ resp[i].kind = "returned"
               /\ resp[i].via = "except_error"

\* C8: a worker exception taken from result_queue becomes the interrupt
\* carrying the URL of its text when the text holds an authorization URL, and
\* is re-raised as it is only when the text holds none.
C8_ErrorTextClassified ==
    [][\A i \in Inv :
         (/\ pc[i] = "poll" /\ pc'[i] # "poll"
          /\ result_queue[i] # <<>>
          /\ result_queue[i][1].status = "error")
            => LET text == result_queue[i][1].text
               IN  IF \E k \in 1..Len(text) : IsAuthUrl(text[k].url)
                   THEN /\ acq'[i].kind = "raise"
                        /\ acq'[i].exc.cls = "AuthRequiredException"
                        /\ \E k \in 1..Len(text) :
                              /\ IsAuthUrl(text[k].url)
                              /\ Carries(acq'[i].exc.text, MatchAt(text[k]))
                   ELSE /\ acq'[i].kind = "raise"
                        /\ acq'[i].exc = Exc("Exception", text)
      ]_vars

\* C8 witness: an error whose text holds an authorization URL was classified.
C8_Witness ==
    \E i \in Inv : acq[i].src = "queue_error_url" /\ acq[i].url = U(OA_URL)

\* C9: the URL the acquirer reads from the channel, and the URL the
\* invocation then reports, is the first URL written to the channel within
\* the invocation (since its own _clear_urls()), whatever is written later;
\* and an invocation raises at most one interrupt.
C9_FirstWrittenIsReported ==
    \A i \in Inv :
        /\ Raising(i) => urls[i][1] = first_since[i]
        /\ FromChannel(acq[i]) => acq[i].url = first_since[i]
        /\ auth_raised[i] <= 1

\* The stream ended without a fault and every event was a chunk record, a
\* raw-bytes record or a raw byte event whose bytes decode.
PlainStream ==
    /\ d_pc = "done"
    /\ d_response.stream \in {"EventStream", "list"}
    /\ d_fault = "none"
    /\ \A k \in 1..Len(d_seen) :
          /\ d_seen[k].kind \in {"chunk", "rawrec", "raw"}
          /\ d_seen[k].isbytes
          /\ Utf8Decode(d_seen[k].p).ok

\* The decoded fragments of the events taken, concatenated in event order.
DecodedConcat ==
    Join([k \in 1..Len(d_seen) |-> Utf8Decode(d_seen[k].p).text])

\* t is the JSON object {"result": "X"} (blanks allowed between its lexemes);
\* ResultString(t) is X.
AfterKey(t) ==
    LET t1 == SkipWs(t)
        t2 == IF t1 # <<>> /\ Head(t1) = "{" THEN SkipWs(Tail(t1)) ELSE <<>>
    IN  IF Len(t2) >= 3 /\ SubSeq(t2, 1, 3) = << DQ, "result", DQ >>
        THEN SkipWs(SubSeq(t2, 4, Len(t2))) ELSE <<>>

AfterColon(t) ==
    LET t3 == AfterKey(t)
    IN  IF t3 # <<>> /\ Head(t3) = ":" THEN SkipWs(Tail(t3)) ELSE <<>>

IsResultObject(t) ==
    LET t4 == AfterColon(t)
    IN  /\ Len(t4) >= 2
        /\ Head(t4) = DQ
        /\ \E j \in 2..Len(t4) :
              /\ t4[j] = DQ
              /\ \A h \in 2..(j - 1) : t4[h] # DQ
              /\ LET t5 == SkipWs(SubSeq(t4, j + 1, Len(t4)))
                 IN  t5 # <<>> /\ Head(t5) = "}" /\ SkipWs(Tail(t5)) = <<>>

ResultString(t) ==
    LET t4 == AfterColon(t)
        j == CHOOSE j \in 2..Len(t4) : t4[j] = DQ /\ \A h \in 2..(j - 1) : t4[h] # DQ
    IN  SubSeq(t4, 2, j - 1)

\* C10: when the decoded fragments of the events, concatenated in event
\* order, are the JSON object {"result": "X"}, parse_agent_response returns X.
C10_ResultUnwrapped ==
    (PlainStream /\ IsResultObject(DecodedConcat))
        => d_out = DReturn(Str(ResultString(DecodedConcat)))

\* What an event carries: the decoded bytes (or the str) of a chunk record, a
\* raw-bytes record or a raw byte event; the fallback text of any other event.
CarriedText(ev) ==
    IF ev.kind \in {"chunk", "rawrec", "raw"}
    THEN (IF ev.isbytes THEN Utf8Decode(ev.p).text ELSE ev.p)
    ELSE EventFragment(ev).text

\* The stream was read to its end, without a fault.
ReadToEnd ==
    /\ d_pc = "done"
    /\ d_response.stream \in {"EventStream", "list"}
    /\ d_fault = "none"

\* What the events taken carry, concatenated in event order.
RawConcat == Join([k \in 1..Len(d_seen) |-> CarriedText(d_seen[k])])

\* C11: when what the events carry, concatenated in event order, is not valid
\* JSON (and is not blank), parse_agent_response returns exactly that
\* concatenation: every fragment once, in order, nothing added or dropped.
C11_RawConcatVerbatim ==
    (ReadToEnd /\ ~json_loads(RawConcat).ok /\ NonBlank(RawConcat))
        => d_out = DReturn(Str(RawConcat))

\* C12: a response whose event stream is an empty sequence (an empty list or
\* an iterator that yields nothing) gives the marker "Empty response.".
C12_EmptyStreamGivesMarker ==
    (/\ d_pc = "done"
     /\ d_response.stream \in {"EventStream", "list", "emptylist"}
     /\ d_seen = <<>>
     /\ d_fault = "none")
        => d_out = DReturn(Str(<< "Empty response." >>))

\* C13: parse_agent_response always returns a text value and raises nothing.
C13_DecoderTotal ==
    d_pc = "done" => (d_out.status = "return" /\ d_out.val.t = "str")

\* The fragments the loop appended for the events taken before the fault.
FragmentsSeen == [k \in 1..Len(d_seen) |-> EventFragment(d_seen[k]).text]

\* C14: when iterating the stream raises after k events were decoded, the
\* stream's fault does not leave parse_agent_response: with k = 0 the result
\* is "Stream read error", with k >= 1 it is what lines 76-81 compute from
\* exactly the first k fragments, in order.
C14_StreamFaultAbsorbed ==
    (d_pc = "done" /\ d_fault = "iter")
        => /\ d_out.exc # "StreamError"
           /\ chunks = FragmentsSeen
           /\ IF d_seen = <<>>
              THEN d_out = DReturn(Str(<< "Stream read error" >>))
              ELSE d_out = JoinAndUnwrap(FragmentsSeen)

\* C14 witness: the stream raised after two events, and the text of both is
\* what was returned.
C14_Witness ==
    /\ d_pc = "done"
    /\ d_fault = "iter"
    /\ d_seen = << Event("chunk", TRUE, << "hello" >>),
                   Event("raw", TRUE, B_TAIL) >>
    /\ d_out = DReturn(Str(<< "hello" >> \o B_TAIL))

\* C15: a turn whose payload has type "warmup" ends at once with the fixed
\* acknowledgement, whatever else the payload carries: graph.invoke is not
\* called, no acquirer or worker is started, the channel is left as it is.
C15_WarmupAcknowledged ==
    [][\A i \in Inv :
         /\ (/\ pc[i] = "idle" /\ pc'[i] # "idle"
             /\ payload'[i].isdict /\ payload'[i].type = "warmup")
                => /\ pc'[i] = "done"
                   /\ resp'[i] = Returned(<< W("Agent is warm and ready.") >>,
                                          "warmup")
                   /\ captured_urls' = captured_urls
                   /\ captured_by' = captured_by
                   /\ sys_stdout' = sys_stdout
         /\ resp'[i].via = "warmup"
                => /\ graph_input'[i] = <<>>
                   /\ thread'[i] = "unstarted"
                   /\ acq'[i] = NoAcq
      ]_vars

\* C15 witness: a warmup payload that also carries a prompt was acknowledged
\* while another invocation's worker runs and the channel holds a URL.
C15_Witness ==
    \E i \in Inv, j \in Inv :
        /\ resp[i].via = "warmup"
        /\ payload[i].prompt = PROMPT
        /\ thread[j] = "running"
        /\ captured_urls # <<>>

\* C16: the replacement of sys.stdout / sys.stderr made by an invocation's
\* worker is not in effect for an invocation that starts after that
\* invocation's _call_github_with_timeout has ended, and once no worker runs
\* sys.stdout / sys.stderr are the original streams.
C16_StreamsRestored ==
    /\ \A i \in Inv, j \in Inv :
          (pc[i] = "tool_done" /\ pc[j] = "idle")
              => sys_stdout # CapturingWriter(i)
    /\ (\A i \in Inv : thread[i] \in {"unstarted", "finished"})
          => sys_stdout = OriginalStreams

\* C17: the time the caller waits in the polls of _call_github_with_timeout
\* (2 per poll, while the worker neither finishes nor writes a URL) never
\* exceeds the bound timeout_seconds.
C17_WaitWithinBound ==
    \A i \in Inv : elapsed[i] <= timeout_seconds

\* C19: at a poll of the loop a posted result is taken first: ("ok", data)
\* makes the call return data whatever the channel holds, and the channel is
\* read only at a poll that finds result_queue empty.
C19_QueueBeforeChannel ==
    [][\A i \in Inv :
         (pc[i] = "poll" /\ (pc'[i] # "poll" \/ elapsed'[i] # elapsed[i]))
            => IF result_queue[i] # <<>>
               THEN /\ pc'[i] = "tool_done"
                    /\ acq'[i].src # "channel_poll"
                    /\ result_queue[i][1].status = "ok"
                          => /\ acq'[i].kind = "return"
                             /\ acq'[i].value = result_queue[i][1].text
               ELSE /\ acq'[i] = NoAcq
                    /\ pc'[i] = "raise_poll" <=> captured_urls # <<>>
      ]_vars

\* C19 witness: the call returned the worker's data although the channel held
\* a URL, written by its own worker, at that poll.
C19_Witness ==
    \E i \in Inv :
        /\ acq[i].src = "queue_ok"
        /\ acq[i].value \in DataTexts
        /\ captured_urls # <<>>
        /\ \A j \in Inv \ {i} : pc[j] = "idle"

\* C18: while the graph executes a turn of a session that has earlier
\* completed turns, the message list invoke passed to graph.invoke holds the
\* session's earlier messages followed by the new prompt.
C18_GraphGetsHistory ==
    \A i \in Inv :
        pc[i] = "chatbot"
            => /\ graph_input[i][Len(graph_input[i])] = PROMPT
               /\ (\E k \in 1..Len(turn_history[i]) :
                       turn_history[i][k].role = "assistant")
                     => Len(graph_input[i]) = Len(turn_history[i]) + 1

\* C20: one OAuth redirect triggers the automatic invocation at most once;
\* when the callback branch has run, oauth_handled is set and the query
\* parameters are cleared.
C20_AutoInvokeOnce ==
    /\ auto_invoked <= 1
    /\ c_pc = "await_auto" => (session_state.oauth_handled /\ ~query_params)

\* C20 witness: after the automatic invocation a typed command has removed
\* oauth_handled, and a later script run has ended without a second
\* automatic invocation.
C20_Witness ==
    /\ auto_invoked = 1
    /\ c_pc = "ready"
    /\ c_event = "rerun"
    /\ ~session_state.oauth_handled
    /\ session_state.messages # <<>>

=============================================================================
